---- MODULE Spec2Model ----
(***************************************************************************)
(* A model of article-compiler (src/main.rs): a directory tree of markdown *)
(* files is loaded, rendered to an HTML tree with computed output paths    *)
(* and breadcrumbs, written to the output directory, and static assets are *)
(* copied next to it.                                                      *)
(*                                                                         *)
(* Strings the program inspects character by character (file names, path  *)
(* segments) are sequences of one-character strings; generated HTML is a   *)
(* string built by concatenation.  A PathBuf is the sequence of its        *)
(* components.                                                             *)
(***************************************************************************)
EXTENDS Integers, Sequences, FiniteSets, TLC

(***************************************************************************)
(* Bounds of the model.                                                    *)
(***************************************************************************)
\* longest ancestor chain given to the path namer and the breadcrumb renderer
MaxChain == 3
\* most children given to the directory listing
MaxChildren == 3
\* most entries of a source tree
MaxEntries == 4

(***************************************************************************)
(* Strings.                                                                *)
(***************************************************************************)
README_MD == <<"R","E","A","D","M","E",".","m","d">>
INDEX_HTML == <<"i","n","d","e","x",".","h","t","m","l">>
DOT_MD == <<".","m","d">>
DOT_HTML == <<".","h","t","m","l">>

\* the text of a character sequence
RECURSIVE Str(_)
Str(s) == IF s = <<>> THEN "" ELSE Head(s) \o Str(Tail(s))

\* str::ends_with
EndsWith(s, suf) ==
    /\ Len(s) >= Len(suf)
    /\ SubSeq(s, Len(s) - Len(suf) + 1, Len(s)) = suf

\* str::replace: every non-overlapping match, left to right
RECURSIVE Replace(_, _, _)
Replace(s, from, to) ==
    IF Len(s) < Len(from) THEN s
    ELSE IF SubSeq(s, 1, Len(from)) = from
         THEN to \o Replace(SubSeq(s, Len(from) + 1, Len(s)), from, to)
         ELSE <<Head(s)>> \o Replace(Tail(s), from, to)

\* [String]::join
RECURSIVE JoinStr(_, _)
JoinStr(v, sep) ==
    IF v = <<>> THEN ""
    ELSE IF Len(v) = 1 THEN v[1]
    ELSE v[1] \o sep \o JoinStr(Tail(v), sep)

\* code of a character (u8), for the characters the model uses
Ord(c) ==
    CASE c = "." -> 46
      [] c = "A" -> 65 [] c = "D" -> 68 [] c = "E" -> 69 [] c = "M" -> 77
      [] c = "R" -> 82
      [] c = "a" -> 97 [] c = "b" -> 98 [] c = "c" -> 99 [] c = "d" -> 100
      [] c = "e" -> 101 [] c = "h" -> 104 [] c = "i" -> 105 [] c = "l" -> 108
      [] c = "m" -> 109 [] c = "n" -> 110 [] c = "o" -> 111 [] c = "p" -> 112
      [] c = "r" -> 114 [] c = "t" -> 116 [] c = "x" -> 120 [] c = "z" -> 122

\* Ord for str: a < b, bytewise lexicographic
RECURSIVE StrLess(_, _)
StrLess(a, b) ==
    IF b = <<>> THEN FALSE
    ELSE IF a = <<>> THEN TRUE
    ELSE IF Ord(Head(a)) # Ord(Head(b)) THEN Ord(Head(a)) < Ord(Head(b))
    ELSE StrLess(Tail(a), Tail(b))

(***************************************************************************)
(* Path Namer.                                                             *)
(***************************************************************************)
Ancestor(name, path) == [name |-> name, path |-> path]

\* faulty variant: no README.md rule, every name goes through the .md replacement
RewriteName_noreadme(name) == Replace(name, DOT_MD, DOT_HTML)

\* faulty variant: a name ending in README.md becomes index.html, its prefix dropped
RewriteName_dropprefix(name) ==
    IF EndsWith(name, README_MD) THEN INDEX_HTML
    ELSE Replace(name, DOT_MD, DOT_HTML)

\* the rewritten name: README.md -> index.html, .md -> .html
RewriteName(name) ==
    IF EndsWith(name, README_MD)
    THEN SubSeq(name, 1, Len(name) - Len(README_MD)) \o INDEX_HTML
    ELSE Replace(name, DOT_MD, DOT_HTML)

\* collecting path segments into a PathBuf: an empty segment adds no component
CollectPath(segs) == SelectSeq(segs, LAMBDA s : s # <<>>)

file_name(ancestors, name) ==
    LET chain == [i \in 1..Len(ancestors) |-> ancestors[i].path]
                 \o <<RewriteName(name)>>
    IN  CollectPath(Tail(chain))

\* Path::to_str of a relative path
PathStr(p) == JoinStr([i \in 1..Len(p) |-> Str(p[i])], "/")

(***************************************************************************)
(* Breadcrumb Renderer.                                                    *)
(***************************************************************************)
Link(href, name) == "<a href=\"" \o href \o "\">" \o name \o "</a>"
Span(name) == "<span>" \o name \o "</span>"

\* faulty variant: the running prefix is always appended to
NextPrefix_append(prev, path) == prev \o "/" \o path

\* the running URL prefix after one more ancestor
NextPrefix(prev, path) ==
    IF prev = "/" THEN "/" \o path ELSE prev \o "/" \o path

\* faulty variant: the last ancestor is always shown as a link followed by the file
BcLast_nospecial(prev, name, file) == <<Link(prev, name), Span(Str(file))>>

\* the fragments pushed for the last ancestor
BcLast(prev, name, file) ==
    IF file = README_MD THEN <<Span(name)>>
    ELSE <<Link(prev, name), Span(Str(file))>>

\* one iteration of the loop, for ancestor i: st = [prev, result]
BcStep(st, ancestors, i, file) ==
    LET prev == NextPrefix(st.prev, Str(ancestors[i].path))
        name == Str(ancestors[i].name)
    IN  [prev   |-> prev,
         result |-> IF i = Len(ancestors)
                    THEN st.result \o BcLast(prev, name, file)
                    ELSE Append(st.result, Link(prev, name))]

BcInit == [prev |-> "", result |-> <<>>]

RECURSIVE BcLoop(_, _, _, _)
BcLoop(st, ancestors, i, file) ==
    IF i > Len(ancestors) THEN st
    ELSE BcLoop(BcStep(st, ancestors, i, file), ancestors, i + 1, file)

breadcrumbs_html(ancestors, file) ==
    JoinStr(BcLoop(BcInit, ancestors, 1, file).result, " / ")

(***************************************************************************)
(* Directory listing.                                                      *)
(***************************************************************************)
\* x put behind the nodes of a sorted sequence whose name is not greater
RECURSIVE InsertByName(_, _)
InsertByName(sorted, x) ==
    IF sorted = <<>> THEN <<x>>
    ELSE IF StrLess(x.file_name, Head(sorted).file_name) THEN <<x>> \o sorted
    ELSE <<Head(sorted)>> \o InsertByName(Tail(sorted), x)

\* faulty variant: the nodes are listed in the order given
SortedByName_unsorted(nodes) == nodes

\* sorted_by(|a, b| a.file_name.cmp(&b.file_name)): a stable sort
RECURSIVE SortedByName(_)
SortedByName(nodes) ==
    IF nodes = <<>> THEN <<>>
    ELSE InsertByName(SortedByName(SubSeq(nodes, 1, Len(nodes) - 1)),
                      nodes[Len(nodes)])

ListItem(node) ==
    LET class == IF node.kind = "Directory" THEN "directory-listing"
                 ELSE "file-listing"
    IN  "<li class=\"" \o class \o "\"><a href=\"/"
        \o PathStr(file_name(node.ancestors, node.file_name))
        \o "\">" \o Str(node.file_name) \o "</a></li>"

RECURSIVE FoldItems(_, _)
FoldItems(acc, nodes) ==
    IF nodes = <<>> THEN acc
    ELSE FoldItems(acc \o ListItem(Head(nodes)), Tail(nodes))

directory_list_html(nodes) ==
    "<ul>" \o FoldItems("", SortedByName(nodes)) \o "</ul>"

(***************************************************************************)
(* State.                                                                  *)
(***************************************************************************)
VARIABLES
    \* navigation of one node: its inputs, the breadcrumb loop, the results
    nv_anc, nv_name, nv_pc, nv_i, nv_st, nv_crumbs, nv_path, nv_readme,
    \* listing of one directory: its children, the listing
    ls_children, ls_pc, ls_out,
    \* the build: the source tree and the entries that cannot be read, the
    \* filesystem written to, the phase of main, the run and what the first
    \* run left (filesystem, last phase), the directories being loaded, the loaded tree, the
    \* converted tree, the nodes still to write, the operations of the
    \* Materializer so far, the error main returned
    src, unreadable, out, phase, run, first, stack, mdroot, htmlroot, wstack,
    wlog, error

navVars == <<nv_anc, nv_name, nv_pc, nv_i, nv_st, nv_crumbs, nv_path, nv_readme>>

lsVars == <<ls_children, ls_pc, ls_out>>

buildVars ==
    <<src, unreadable, out, phase, run, first, stack, mdroot, htmlroot, wstack,
      wlog, error>>

vars == <<navVars, lsVars, buildVars>>

(***************************************************************************)
(* Navigation of one node: breadcrumbs_html step by step, then file_name   *)
(* of the node and of a README.md beside it.                               *)
(***************************************************************************)
NAME_ROOT == <<"r","o","o","t">>
NAME_A == <<"a">>
NAME_B == <<"b">>

\* the root contributes no path segment; a directory contributes its name
NavAncestors ==
    {Ancestor(NAME_ROOT, <<>>), Ancestor(NAME_A, NAME_A), Ancestor(NAME_B, NAME_B)}

RECURSIVE SeqsUpTo(_, _)
SeqsUpTo(S, n) ==
    IF n = 0 THEN {<<>>}
    ELSE LET shorter == SeqsUpTo(S, n - 1)
         IN  shorter \cup {Append(s, x) : s \in shorter, x \in S}

NavNames ==
    {README_MD, INDEX_HTML,
     <<"i","n","d","e","x",".","m","d">>,
     <<"o","t","h","e","r",".","m","d">>,
     <<"c",".","m","d">>,
     <<"x","R","E","A","D","M","E",".","m","d">>,
     <<"a",".","m","d",".","m","d">>,
     NAME_B}

NavIdle ==
    /\ nv_anc = <<>> /\ nv_name = <<>> /\ nv_pc = "idle" /\ nv_i = 0
    /\ nv_st = BcInit /\ nv_crumbs = "" /\ nv_path = <<>> /\ nv_readme = <<>>

NavInit ==
    /\ nv_anc \in SeqsUpTo(NavAncestors, MaxChain)
    /\ nv_name \in NavNames
    /\ nv_pc = "loop"
    /\ nv_i = 1
    /\ nv_st = BcInit
    /\ nv_crumbs = ""
    /\ nv_path = <<>>
    /\ nv_readme = <<>>

\* ancestors.next() is Some: one ancestor is rendered
BcNext ==
    /\ nv_pc = "loop"
    /\ nv_i <= Len(nv_anc)
    /\ nv_st' = BcStep(nv_st, nv_anc, nv_i, nv_name)
    /\ nv_i' = nv_i + 1
    /\ UNCHANGED <<nv_anc, nv_name, nv_pc, nv_crumbs, nv_path, nv_readme,
                   lsVars, buildVars>>

\* ancestors.next() is None: break, join
BcBreak ==
    /\ nv_pc = "loop"
    /\ nv_i > Len(nv_anc)
    /\ nv_crumbs' = JoinStr(nv_st.result, " / ")
    /\ nv_pc' = "path"
    /\ UNCHANGED <<nv_anc, nv_name, nv_i, nv_st, nv_path, nv_readme,
                   lsVars, buildVars>>

\* file_name of the node and of README.md under the same ancestors
ComputePath ==
    /\ nv_pc = "path"
    /\ nv_path' = file_name(nv_anc, nv_name)
    /\ nv_readme' = file_name(nv_anc, README_MD)
    /\ nv_pc' = "done"
    /\ UNCHANGED <<nv_anc, nv_name, nv_i, nv_st, nv_crumbs, lsVars, buildVars>>

(***************************************************************************)
(* Listing of one directory: directory_list_html of its children.          *)
(***************************************************************************)
NAME_ZETA_MD == <<"z","e","t","a",".","m","d">>
NAME_ALPHA == <<"A","l","p","h","a">>
NAME_BETA_MD == <<"b","e","t","a",".","m","d">>

ListNames == {NAME_ZETA_MD, NAME_ALPHA, NAME_BETA_MD}

\* the ancestors of the children of the root, and of a directory below it
ListChains ==
    {<<Ancestor(NAME_ROOT, <<>>)>>,
     <<Ancestor(NAME_ROOT, <<>>), Ancestor(NAME_A, NAME_A)>>}

ListNode(name, kind, ancestors) ==
    [file_name |-> name, kind |-> kind, ancestors |-> ancestors]

LsIdle == ls_children = <<>> /\ ls_pc = "idle" /\ ls_out = ""

LsInit ==
    /\ \E anc \in ListChains :
          ls_children \in
              SeqsUpTo({ListNode(n, k, anc) :
                            n \in ListNames, k \in {"Directory", "File"}},
                       MaxChildren)
    /\ ls_pc = "list"
    /\ ls_out = ""

DirectoryList ==
    /\ ls_pc = "list"
    /\ ls_out' = directory_list_html(ls_children)
    /\ ls_pc' = "done"
    /\ UNCHANGED <<ls_children, navVars, buildVars>>

(***************************************************************************)
(* The build.  Paths of the source tree are relative to articles/; paths   *)
(* of the filesystem written to are relative to the working directory.     *)
(***************************************************************************)
NAME_INDEX_MD == <<"i","n","d","e","x",".","m","d">>
NAME_A_MD == <<"a",".","m","d">>
NAME_D == <<"d">>
NAME_A_HTML == <<"a",".","h","t","m","l">>
NAME_E_MD == <<"e",".","m","d">>
NAME_CSS == <<"c","s","s">>
NAME_IMG == <<"i","m","g">>
NAME_OLD == <<"o","l","d">>

\* OUT_DIR and ROOT_TITLE, at their defaults
output_dir == <<"b","u","i","l","d">>
root_dir_title == NAME_ROOT

None == [kind |-> "None"]

\* the directories of a source tree are the entries with these names
DirNames == {NAME_D, NAME_A_HTML, NAME_E_MD}

\* every entry a source tree may hold
SourcePaths ==
    {<<README_MD>>, <<NAME_INDEX_MD>>, <<NAME_A_MD>>,
     <<NAME_D>>, <<NAME_D, README_MD>>, <<NAME_D, NAME_A_MD>>,
     <<NAME_A_HTML>>, <<NAME_A_HTML, NAME_A_MD>>,
     <<NAME_E_MD>>, <<NAME_E_MD, README_MD>>}

Parent(p) == SubSeq(p, 1, Len(p) - 1)

SourceTrees ==
    {S \in SUBSET SourcePaths :
        /\ Cardinality(S) <= MaxEntries
        /\ \A p \in S : Len(p) > 1 => Parent(p) \in S}

IsSourceDir(p) == p = <<>> \/ p[Len(p)] \in DirNames

\* fs::read_dir: the names of the entries of a directory
EntryNames(tree, p) ==
    {q[Len(q)] : q \in {r \in tree : Len(r) = Len(p) + 1 /\ Parent(r) = p}}

\* fs::read_to_string of a source file: the text is known by its place
FileText(p) == [text |-> p]

\* markdown::to_html
to_html(text) == [html |-> text]

(***************************************************************************)
(* The filesystem written to: a function from the paths that exist.        *)
(***************************************************************************)
EmptyFs == [p \in {} |-> None]

DirEntryOf == [kind |-> "dir"]
FileEntryOf(content) == [kind |-> "file", content |-> content]

ExistsDir(fs, p) == p = <<>> \/ (p \in DOMAIN fs /\ fs[p].kind = "dir")

\* fs::create_dir succeeds: the path is new and its parent is a directory
CanCreateDir(fs, p) ==
    /\ p # <<>>
    /\ p \notin DOMAIN fs
    /\ ExistsDir(fs, Parent(p))

\* fs::write and fs::copy succeed: the parent is a directory and the path is
\* not one
CanWrite(fs, p) ==
    /\ p # <<>>
    /\ ExistsDir(fs, Parent(p))
    /\ ~ExistsDir(fs, p)

Put(fs, p, e) == [q \in DOMAIN fs \cup {p} |-> IF q = p THEN e ELSE fs[q]]

IsUnder(p, root) == Len(p) >= Len(root) /\ SubSeq(p, 1, Len(root)) = root

\* fs::remove_dir_all
remove_dir_all(fs, root) ==
    [q \in {p \in DOMAIN fs : ~IsUnder(p, root)} |-> fs[q]]

(***************************************************************************)
(* Tree Renderer.                                                          *)
(***************************************************************************)
wrap_directory(name, content) ==
    [template |-> "directory_list.html", name |-> Str(name), content |-> content]

wrap_root(ancestors, content, name) ==
    [template |-> "root.html", content |-> content,
     breadcrumbs |-> breadcrumbs_html(ancestors, name)]

file_path(ancestors, name) == <<output_dir>> \o file_name(ancestors, name)

\* faulty variant: the page of a directory gets the breadcrumbs of a README.md
DirPageName_readme(node) == README_MD

\* the name the page of a directory is wrapped with
DirPageName(node) == node.file_name

DirBody(node) ==
    IF node.readme = None
    THEN wrap_directory(node.file_name, directory_list_html(node.children))
    ELSE to_html(node.readme)

\* From<MarkdownNode> for HtmlNode
RECURSIVE HtmlFrom(_)
HtmlFrom(node) ==
    IF node.kind = "File"
    THEN [kind |-> "File",
          path |-> file_path(node.ancestors, node.file_name),
          content |-> wrap_root(node.ancestors, to_html(node.content),
                                node.file_name)]
    ELSE [kind |-> "Directory",
          path |-> file_path(node.ancestors, node.file_name),
          content |-> wrap_root(node.ancestors, DirBody(node), DirPageName(node)),
          children |-> [i \in 1..Len(node.children) |->
                            HtmlFrom(node.children[i])]]

(***************************************************************************)
(* Asset Copier.  public/ holds the file css and the directory img, which  *)
(* holds the file css.                                                     *)
(***************************************************************************)
AssetNames == {NAME_CSS, NAME_IMG}

\* copy_dir_entry of one entry of public/ into the directory `to`
copy_dir_entry(fs, name, to) ==
    IF name = NAME_IMG
    THEN IF ~CanCreateDir(fs, to \o <<name>>) THEN [ok |-> FALSE, fs |-> fs]
         ELSE LET made == Put(fs, to \o <<name>>, DirEntryOf)
                  file == to \o <<name, NAME_CSS>>
              IN  IF ~CanWrite(made, file) THEN [ok |-> FALSE, fs |-> made]
                  ELSE [ok |-> TRUE,
                        fs |-> Put(made, file,
                                   FileEntryOf([asset |-> <<name, NAME_CSS>>]))]
    ELSE IF ~CanWrite(fs, to \o <<name>>) THEN [ok |-> FALSE, fs |-> fs]
         ELSE [ok |-> TRUE,
               fs |-> Put(fs, to \o <<name>>, FileEntryOf([asset |-> <<name>>]))]

\* the entries of public/ copied in the order given, up to the first failure
RECURSIVE CopyAll(_, _, _)
CopyAll(fs, names, to) ==
    IF names = <<>> THEN [ok |-> TRUE, fs |-> fs]
    ELSE LET r == copy_dir_entry(fs, Head(names), to)
         IN  IF r.ok THEN CopyAll(r.fs, Tail(names), to) ELSE r

(***************************************************************************)
(* One run of main, and a second run on the same input.                    *)
(***************************************************************************)
BuildIdle ==
    /\ src = {} /\ unreadable = {} /\ out = EmptyFs /\ phase = "idle"
    /\ run = 0 /\ first = None /\ stack = <<>> /\ mdroot = None
    /\ htmlroot = None /\ wstack = <<>> /\ wlog = <<>> /\ error = None

\* what the working directory may hold of an earlier build
StaleFs ==
    Put(Put(EmptyFs, <<output_dir>>, DirEntryOf),
        <<output_dir, NAME_OLD>>, FileEntryOf([stale |-> TRUE]))

BuildInit ==
    /\ src \in SourceTrees
    /\ unreadable \in {{}} \cup {{p} : p \in src}
    /\ out \in {EmptyFs, StaleFs}
    /\ phase = "clean"
    /\ run = 1
    /\ first = None
    /\ stack = <<>>
    /\ mdroot = None
    /\ htmlroot = None
    /\ wstack = <<>>
    /\ wlog = <<>>
    /\ error = None

\* faulty variant: the root contributes its title as a path segment too
FileAncestors_rootsegment(ancestors, name) ==
    ancestors \o <<Ancestor(name, name)>>

\* the ancestors handed to the children of a directory
FileAncestors(ancestors, name) ==
    ancestors \o <<Ancestor(name, IF ancestors = <<>> THEN <<>> ELSE name)>>

Frame(path, name, ancestors) ==
    [path |-> path, file_name |-> name, ancestors |-> ancestors,
     remaining |-> EntryNames(src, path), children |-> <<>>]

\* main: the output directory is removed, articles/ is opened
Clean ==
    /\ phase = "clean"
    /\ out' = remove_dir_all(out, <<output_dir>>)
    /\ stack' = <<Frame(<<>>, root_dir_title, <<>>)>>
    /\ phase' = "load"
    /\ UNCHANGED <<src, unreadable, run, first, mdroot, htmlroot, wstack, wlog,
                   error, navVars, lsVars>>

Top == stack[Len(stack)]

WithTop(f) == [stack EXCEPT ![Len(stack)] = f]

\* the directory yields an entry that cannot be read: the load fails
LoadUnreadable ==
    /\ phase = "load"
    /\ \E name \in Top.remaining :
          LET p == Top.path \o <<name>>
          IN  /\ p \in unreadable
              /\ error' = [text |-> IF IsSourceDir(p)
                                    THEN "unable to read directory"
                                    ELSE "unable to read file",
                           subject |-> name]
              /\ stack' = WithTop([Top EXCEPT !.remaining = @ \ {name}])
    /\ phase' = "failed"
    /\ UNCHANGED <<src, unreadable, out, run, first, mdroot, htmlroot, wstack,
                   wlog, navVars, lsVars>>

\* the directory yields a file: it is read and becomes a child
LoadFile ==
    /\ phase = "load"
    /\ \E name \in Top.remaining :
          LET p == Top.path \o <<name>>
              node == [kind |-> "File", content |-> FileText(p),
                       file_name |-> name,
                       ancestors |-> FileAncestors(Top.ancestors, Top.file_name)]
          IN  /\ p \notin unreadable
              /\ ~IsSourceDir(p)
              /\ stack' = WithTop([Top EXCEPT !.remaining = @ \ {name},
                                              !.children = Append(@, node)])
    /\ UNCHANGED <<src, unreadable, out, phase, run, first, mdroot, htmlroot,
                   wstack, wlog, error, navVars, lsVars>>

\* the directory yields a directory: it is opened and loaded first
LoadDir ==
    /\ phase = "load"
    /\ \E name \in Top.remaining :
          LET p == Top.path \o <<name>>
          IN  /\ p \notin unreadable
              /\ IsSourceDir(p)
              /\ stack' =
                    Append(WithTop([Top EXCEPT !.remaining = @ \ {name}]),
                           Frame(p, name,
                                 FileAncestors(Top.ancestors, Top.file_name)))
    /\ UNCHANGED <<src, unreadable, out, phase, run, first, mdroot, htmlroot,
                   wstack, wlog, error, navVars, lsVars>>

\* fs::read_to_string(readme_path).ok()
ReadReadme(path) ==
    LET p == path \o <<README_MD>>
    IN  IF p \in src /\ ~IsSourceDir(p) /\ p \notin unreadable
        THEN FileText(p) ELSE None

\* the directory is exhausted: its node is built and handed to its parent
LoadFinish ==
    /\ phase = "load"
    /\ Top.remaining = {}
    /\ LET node == [kind |-> "Directory", readme |-> ReadReadme(Top.path),
                    children |-> Top.children, file_name |-> Top.file_name,
                    ancestors |-> Top.ancestors]
           rest == SubSeq(stack, 1, Len(stack) - 1)
       IN  IF rest = <<>>
           THEN /\ mdroot' = node
                /\ stack' = <<>>
                /\ phase' = "render"
           ELSE /\ stack' = [rest EXCEPT ![Len(rest)].children = Append(@, node)]
                /\ UNCHANGED <<mdroot, phase>>
    /\ UNCHANGED <<src, unreadable, out, run, first, htmlroot, wstack, wlog,
                   error, navVars, lsVars>>

\* main: the tree is converted
Render ==
    /\ phase = "render"
    /\ htmlroot' = HtmlFrom(mdroot)
    /\ wstack' = <<HtmlFrom(mdroot)>>
    /\ phase' = "write"
    /\ UNCHANGED <<src, unreadable, out, run, first, stack, mdroot, wlog, error,
                   navVars, lsVars>>

Op(op, path, ok) == [op |-> op, path |-> path, ok |-> ok]

IoError == [text |-> "io error", subject |-> <<>>]

\* faulty variant: the children of a directory wait behind what was pending
Pending_childrenlast(children, rest) == rest \o children

\* the nodes to write once a directory is made: its children, then the rest
Pending(children, rest) == children \o rest

\* write_node_to_dir of the next node: a file is written; a directory is
\* created, its index written, its children are next
write_node_to_dir ==
    /\ phase = "write"
    /\ wstack # <<>>
    /\ LET node == Head(wstack)
           index == node.path \o <<INDEX_HTML>>
       IN  IF node.kind = "File"
           THEN IF CanWrite(out, node.path)
                THEN /\ out' = Put(out, node.path, FileEntryOf(node.content))
                     /\ wlog' = Append(wlog, Op("write", node.path, TRUE))
                     /\ wstack' = Tail(wstack)
                     /\ phase' = IF Tail(wstack) = <<>> THEN "copy" ELSE "write"
                     /\ UNCHANGED error
                ELSE /\ wlog' = Append(wlog, Op("write", node.path, FALSE))
                     /\ error' = IoError
                     /\ phase' = "failed"
                     /\ UNCHANGED <<out, wstack>>
           ELSE IF ~CanCreateDir(out, node.path)
                THEN /\ wlog' = Append(wlog, Op("create_dir", node.path, FALSE))
                     /\ error' = IoError
                     /\ phase' = "failed"
                     /\ UNCHANGED <<out, wstack>>
                ELSE LET made == Put(out, node.path, DirEntryOf)
                     IN  IF ~CanWrite(made, index)
                         THEN /\ out' = made
                              /\ wlog' = wlog \o <<Op("create_dir", node.path, TRUE),
                                                   Op("write", index, FALSE)>>
                              /\ error' = IoError
                              /\ phase' = "failed"
                              /\ UNCHANGED wstack
                         ELSE /\ out' = Put(made, index, FileEntryOf(node.content))
                              /\ wlog' = wlog \o <<Op("create_dir", node.path, TRUE),
                                                   Op("write", index, TRUE)>>
                              /\ wstack' = Pending(node.children, Tail(wstack))
                              /\ phase' = IF Pending(node.children, Tail(wstack)) = <<>>
                                          THEN "copy" ELSE "write"
                              /\ UNCHANGED error
    /\ UNCHANGED <<src, unreadable, run, first, stack, mdroot, htmlroot,
                   navVars, lsVars>>

\* main: the entries of public/ are copied, in the order read_dir yields them
CopyAssets ==
    /\ phase = "copy"
    /\ \E order \in {<<NAME_CSS, NAME_IMG>>, <<NAME_IMG, NAME_CSS>>} :
          LET r == CopyAll(out, order, <<output_dir>>)
          IN  /\ out' = r.fs
              /\ phase' = IF r.ok THEN "done" ELSE "failed"
              /\ error' = IF r.ok THEN error ELSE IoError
    /\ UNCHANGED <<src, unreadable, run, first, stack, mdroot, htmlroot, wstack,
                   wlog, navVars, lsVars>>

\* the program is run again on the same input
RunAgain ==
    /\ phase \in {"done", "failed"}
    /\ run = 1
    /\ first' = [fs |-> out, phase |-> phase]
    /\ run' = 2
    /\ phase' = "clean"
    /\ stack' = <<>>
    /\ mdroot' = None
    /\ htmlroot' = None
    /\ wstack' = <<>>
    /\ wlog' = <<>>
    /\ error' = None
    /\ UNCHANGED <<src, unreadable, out, navVars, lsVars>>

(***************************************************************************)
(* Specifications.                                                         *)
(***************************************************************************)
NavStart == NavInit /\ LsIdle /\ BuildIdle

NavNext == BcNext \/ BcBreak \/ ComputePath

SpecNav == NavStart /\ [][NavNext]_vars

ListStart == LsInit /\ NavIdle /\ BuildIdle

ListNext == DirectoryList

SpecList == ListStart /\ [][ListNext]_vars

Init == BuildInit /\ NavIdle /\ LsIdle

Next ==
    \/ Clean
    \/ LoadUnreadable
    \/ LoadFile
    \/ LoadDir
    \/ LoadFinish
    \/ Render
    \/ write_node_to_dir
    \/ CopyAssets
    \/ RunAgain

Spec == Init /\ [][Next]_vars

(***************************************************************************)
(* Properties of the Path Namer.                                           *)
(***************************************************************************)
NAME_OTHER_MD == <<"o","t","h","e","r",".","m","d">>
NAME_C_MD == <<"c",".","m","d">>

Last(p) == p[Len(p)]

\* C1, as stated: for every ancestor chain, the empty one included, the path
\* of README.md ends in the segment index.html.
C1_AnyChainEndsInIndex ==
    nv_pc = "done" => (nv_readme # <<>> /\ Last(nv_readme) = INDEX_HTML)

\* C1, amended: for every non-empty ancestor chain, the path of README.md ends
\* in the segment index.html, after the path segments of the ancestors below
\* the first.
C1_NonEmptyChainEndsInIndex ==
    (nv_pc = "done" /\ nv_anc # <<>>) =>
        /\ nv_readme # <<>>
        /\ Last(nv_readme) = INDEX_HTML
        /\ Len(nv_readme) =
              1 + Cardinality({i \in 2..Len(nv_anc) : nv_anc[i].path # <<>>})

C1_Witness ==
    /\ nv_pc = "done"
    /\ nv_anc = <<Ancestor(NAME_ROOT, <<>>), Ancestor(NAME_A, NAME_A)>>
    /\ nv_readme = <<NAME_A, INDEX_HTML>>

\* C2, as stated: for every ancestor chain and every file name other than
\* README.md, the path of README.md and the path of that name differ.
C2_NeverCollides ==
    (nv_pc = "done" /\ nv_name # README_MD) => nv_path # nv_readme

\* C2, amended: for every non-empty ancestor chain and every file name other
\* than README.md, index.md and index.html, the path of README.md and the
\* path of that name differ.
C2_CollidesOnlyOnIndex ==
    (/\ nv_pc = "done"
     /\ nv_anc # <<>>
     /\ nv_name \notin {README_MD, NAME_INDEX_MD, INDEX_HTML})
        => nv_path # nv_readme

C2_Witness ==
    /\ nv_pc = "done"
    /\ Len(nv_anc) = 2
    /\ nv_name = <<"x","R","E","A","D","M","E",".","m","d">>
    /\ Last(nv_path) = <<"x">> \o INDEX_HTML
    /\ Last(nv_readme) = INDEX_HTML

(***************************************************************************)
(* Properties of the Breadcrumb Renderer.                                  *)
(***************************************************************************)
\* the fragments, each followed by the separator but the last
RECURSIVE Separated(_)
Separated(frags) ==
    IF Len(frags) = 0 THEN ""
    ELSE IF Len(frags) = 1 THEN frags[1]
    ELSE Separated(SubSeq(frags, 1, Len(frags) - 1)) \o " / " \o Last(frags)

\* "/" + segment, for each of the ancestors from..to in order
RECURSIVE SlashSegments(_, _, _)
SlashSegments(A, from, to) ==
    IF from > to THEN ""
    ELSE SlashSegments(A, from, to - 1) \o "/" \o Str(A[to].path)

\* the ancestors before i that open the chain with an empty path segment
EmptyLead(A, i) ==
    Cardinality({k \in 1..(i - 1) : \A j \in 1..k : A[j].path = <<>>})

\* the href of ancestor i as C4 states it
StatedHref(A, i) == SlashSegments(A, 1, i)

\* the href of ancestor i: the slashes of the empty segments that open the
\* chain are not kept
CollapsedHref(A, i) ==
    IF EmptyLead(A, i) = i - 1 /\ A[i].path = <<>> THEN "/"
    ELSE SlashSegments(A, EmptyLead(A, i) + 1, i)

\* ancestor i has been rendered as a link
LinkEmitted(i) ==
    /\ i < nv_i
    /\ (i < Len(nv_anc) \/ nv_name # README_MD)

\* C4, as stated: the href of the link of ancestor i is the empty string
\* extended, for each of ancestors 1..i, by "/" and its path segment.
C4_HrefIsAppendedPrefix ==
    \A i \in 1..Len(nv_anc) :
        LinkEmitted(i) =>
            nv_st.result[i] = Link(StatedHref(nv_anc, i), Str(nv_anc[i].name))

\* C4, amended: the href of the link of ancestor i is "/" followed by the
\* path segments of ancestors k..i joined by "/", where the ancestors before
\* k are those that open the chain with an empty segment (the root): below
\* the root the hrefs are /a, /a/b, not //a, //a/b.
C4_HrefCollapsesRoot ==
    \A i \in 1..Len(nv_anc) :
        LinkEmitted(i) =>
            nv_st.result[i] = Link(CollapsedHref(nv_anc, i), Str(nv_anc[i].name))

C4_Witness ==
    /\ nv_pc = "done"
    /\ nv_anc = <<Ancestor(NAME_ROOT, <<>>), Ancestor(NAME_A, NAME_A),
                  Ancestor(NAME_B, NAME_B)>>
    /\ nv_name = NAME_C_MD
    /\ nv_st.result[1] = "<a href=\"/\">root</a>"
    /\ nv_st.result[3] = "<a href=\"/a/b\">b</a>"

\* the breadcrumbs C3 describes
ExpectedCrumbs(A, file) ==
    IF A = <<>> THEN ""
    ELSE LET n == Len(A)
             link(i) == Link(CollapsedHref(A, i), Str(A[i].name))
             links == [i \in 1..(n - 1) |-> link(i)]
             tail == IF file = README_MD
                     THEN <<Span(Str(A[n].name))>>
                     ELSE <<link(n), Span(Str(file))>>
         IN  Separated(links \o tail)

\* C3: the breadcrumbs are empty for the empty chain; otherwise a link per
\* ancestor but the last, then a span of the last ancestor when the file is
\* README.md, or its link and a span of the file name otherwise, joined by
\* " / "; with the two renderings of ancestors [a, b] the claim gives.
C3_Breadcrumbs ==
    nv_pc \in {"path", "done"} =>
        /\ nv_crumbs = ExpectedCrumbs(nv_anc, nv_name)
        /\ nv_anc = <<>> => nv_crumbs = ""
        /\ nv_anc = <<Ancestor(NAME_A, NAME_A), Ancestor(NAME_B, NAME_B)>> =>
            /\ nv_name = NAME_C_MD => nv_crumbs =
                 "<a href=\"/a\">a</a> / <a href=\"/a/b\">b</a> / <span>c.md</span>"
            /\ nv_name = README_MD => nv_crumbs =
                 "<a href=\"/a\">a</a> / <span>b</span>"

C3_Witness ==
    /\ nv_pc = "done"
    /\ nv_anc = <<Ancestor(NAME_A, NAME_A), Ancestor(NAME_B, NAME_B)>>
    /\ nv_name = README_MD
    /\ nv_crumbs = "<a href=\"/a\">a</a> / <span>b</span>"

(***************************************************************************)
(* Properties of the directory listing.                                    *)
(***************************************************************************)
Orders(n) ==
    {p \in [1..n -> 1..n] : \A i, j \in 1..n : p[i] = p[j] => i = j}

RECURSIVE ItemsInOrder(_, _, _)
ItemsInOrder(nodes, p, i) ==
    IF i > Len(nodes) THEN ""
    ELSE LET c == nodes[p[i]]
         IN  "<li class=\""
             \o (IF c.kind = "Directory" THEN "directory-listing"
                 ELSE "file-listing")
             \o "\"><a href=\"/" \o PathStr(file_name(c.ancestors, c.file_name))
             \o "\">" \o Str(c.file_name) \o "</a></li>"
             \o ItemsInOrder(nodes, p, i + 1)

\* C6: the listing is one <ul> holding exactly one item per child, in case-
\* sensitive lexicographic order of the names whatever the order given, each
\* item with the class of its kind and a link to "/" + the child's path;
\* [zeta.md, Alpha, beta.md] is listed as Alpha, beta.md, zeta.md, and no
\* children give <ul></ul>.
C6_Listing ==
    ls_pc = "done" =>
        LET n == Len(ls_children)
        IN  /\ \E p \in Orders(n) :
                  /\ \A i \in 1..(n - 1) :
                        ~StrLess(ls_children[p[i + 1]].file_name,
                                 ls_children[p[i]].file_name)
                  /\ ls_out = "<ul>" \o ItemsInOrder(ls_children, p, 1) \o "</ul>"
            /\ n = 0 => ls_out = "<ul></ul>"
            /\ ls_children =
                 <<ListNode(NAME_ZETA_MD, "File", <<Ancestor(NAME_ROOT, <<>>)>>),
                   ListNode(NAME_ALPHA, "Directory", <<Ancestor(NAME_ROOT, <<>>)>>),
                   ListNode(NAME_BETA_MD, "File", <<Ancestor(NAME_ROOT, <<>>)>>)>>
               => ls_out = "<ul>"
                    \o "<li class=\"directory-listing\"><a href=\"/Alpha\">Alpha</a></li>"
                    \o "<li class=\"file-listing\"><a href=\"/beta.html\">beta.md</a></li>"
                    \o "<li class=\"file-listing\"><a href=\"/zeta.html\">zeta.md</a></li>"
                    \o "</ul>"

C6_Witness ==
    /\ ls_pc = "done"
    /\ Len(ls_children) = 3
    /\ ls_children[1].file_name = NAME_ZETA_MD
    /\ ls_children[2].file_name = NAME_ALPHA
    /\ ls_children[3].file_name = NAME_BETA_MD
    /\ ls_children[2].kind = "Directory"
    /\ ls_children[1].kind = "File"
    /\ ls_children[3].kind = "File"
    /\ ls_children[1].ancestors = <<Ancestor(NAME_ROOT, <<>>)>>
    /\ ls_out = "<ul>"
         \o "<li class=\"directory-listing\"><a href=\"/Alpha\">Alpha</a></li>"
         \o "<li class=\"file-listing\"><a href=\"/beta.html\">beta.md</a></li>"
         \o "<li class=\"file-listing\"><a href=\"/zeta.html\">zeta.md</a></li>"
         \o "</ul>"

(***************************************************************************)
(* Properties of the build.                                                *)
(***************************************************************************)
RECURSIVE MdNodes(_)
MdNodes(node) ==
    IF node.kind = "File" THEN {node}
    ELSE {node} \cup UNION {MdNodes(node.children[i]) :
                                i \in 1..Len(node.children)}

\* a loaded node beside the node it was converted to, over the whole tree
RECURSIVE Converted(_, _)
Converted(md, html) ==
    IF md.kind = "File" \/ html.kind = "File"
       \/ Len(md.children) # Len(html.children)
    THEN {<<md, html>>}
    ELSE {<<md, html>>} \cup
         UNION {Converted(md.children[i], html.children[i]) :
                    i \in 1..Len(md.children)}

\* where a loaded node lies in the source tree
SourcePathOf(node) ==
    IF node.ancestors = <<>> THEN <<>>
    ELSE [i \in 1..(Len(node.ancestors) - 1) |-> node.ancestors[i + 1].name]
         \o <<node.file_name>>

\* the output path the spec gives a node: the path segments of its ancestors
\* below the root, then its rewritten name
StatedPath(node) ==
    <<output_dir>>
    \o [i \in 1..(Len(node.ancestors) - 1) |-> node.ancestors[i + 1].path]
    \o <<IF node.file_name = README_MD THEN INDEX_HTML
         ELSE Replace(node.file_name, DOT_MD, DOT_HTML)>>

LoadedDirs ==
    IF mdroot = None THEN {}
    ELSE {n \in MdNodes(mdroot) : n.kind = "Directory"}

ChildNames(dir) == {dir.children[i].file_name : i \in 1..Len(dir.children)}

\* each child's chain is the directory's chain extended by the directory,
\* whose path segment is its title, or empty for the root
C9_ChildAncestors ==
    \A d \in LoadedDirs : \A i \in 1..Len(d.children) :
        d.children[i].ancestors =
            d.ancestors \o <<Ancestor(d.file_name,
                                      IF d.ancestors = <<>> THEN <<>>
                                      ELSE d.file_name)>>

\* C9, as stated: README.md is only the body of its directory: the children
\* of a loaded directory are exactly its entries other than README.md, none
\* is named README.md, none has the path of the directory's own index page,
\* and each child's chain is the directory's chain extended by the directory.
C9_ReadmeIsNotAChild ==
    /\ C9_ChildAncestors
    /\ \A d \in LoadedDirs :
          /\ ChildNames(d) = EntryNames(src, SourcePathOf(d)) \ {README_MD}
          /\ Len(d.children) = Cardinality(ChildNames(d))
          /\ \A i \in 1..Len(d.children) :
                /\ d.children[i].file_name # README_MD
                /\ file_path(d.children[i].ancestors, d.children[i].file_name)
                     # file_path(d.ancestors, d.file_name) \o <<INDEX_HTML>>

\* the rewrite leaves the name of the directory as it is, or it is the root
KeepsName(d) ==
    d.ancestors = <<>> \/ Replace(d.file_name, DOT_MD, DOT_HTML) = d.file_name

\* C9, amended: README.md is the body of its directory and one of its
\* children as well: the children of a loaded directory are exactly its
\* entries, README.md included, each once; a child has the path of the
\* directory's own index page only if it is named README.md, index.md or
\* index.html, and every such child has it when the rewrite leaves the
\* directory's own name unchanged; each child's chain is the directory's
\* chain extended by the directory.
C9_ReadmeIsAlsoAChild ==
    /\ C9_ChildAncestors
    /\ \A d \in LoadedDirs :
          /\ ChildNames(d) = EntryNames(src, SourcePathOf(d))
          /\ Len(d.children) = Cardinality(ChildNames(d))
          /\ d.readme # None <=> README_MD \in ChildNames(d)
          /\ \A i \in 1..Len(d.children) :
                LET c == d.children[i]
                    onIndex == file_path(c.ancestors, c.file_name)
                               = file_path(d.ancestors, d.file_name) \o <<INDEX_HTML>>
                    named == c.file_name \in {README_MD, NAME_INDEX_MD, INDEX_HTML}
                IN  /\ onIndex => named
                    /\ (named /\ KeepsName(d)) => onIndex

C9_Witness ==
    \E d \in LoadedDirs :
        /\ d.file_name = NAME_D
        /\ d.ancestors = <<Ancestor(NAME_ROOT, <<>>)>>
        /\ d.readme = FileText(<<NAME_D, README_MD>>)
        /\ \E i \in 1..Len(d.children) :
              /\ d.children[i].file_name = README_MD
              /\ d.children[i].ancestors =
                    <<Ancestor(NAME_ROOT, <<>>), Ancestor(NAME_D, NAME_D)>>
              /\ file_path(d.children[i].ancestors, README_MD)
                    = <<output_dir, NAME_D, INDEX_HTML>>

ARTICLES == <<"a","r","t","i","c","l","e","s">>

\* the path of a source entry, as fs prints it
RECURSIVE SourcePathText(_)
SourcePathText(p) ==
    IF p = <<>> THEN ARTICLES
    ELSE SourcePathText(Parent(p)) \o <<"/">> \o p[Len(p)]

BuiltPaths(fs) == {p \in DOMAIN fs : IsUnder(p, <<output_dir>>)}

\* the load stops at the file that cannot be read: no entry its directory had
\* yet to yield is loaded, nothing is converted, written or copied
C7_LoadStopsAtEntry ==
    (phase = "failed" /\ error.text = "unable to read file") =>
        \E p \in unreadable :
            /\ Top.path = Parent(p)
            /\ p[Len(p)] \notin ChildNames(Top)
            /\ Top.remaining \cap ChildNames(Top) = {}
            /\ mdroot = None /\ htmlroot = None /\ wlog = <<>>
            /\ BuiltPaths(out) = {}

\* C7: a file that cannot be read stops the load at that entry, the later
\* phases never run, and the error names the file by its path.
C7_UnreadableFileNamedByPath ==
    /\ C7_LoadStopsAtEntry
    /\ (phase = "failed" /\ error.text = "unable to read file") =>
           \E p \in unreadable : error.subject = SourcePathText(p)

\* C5: two runs in a row on the same source tree, assets and OUT_DIR, each
\* through all its phases, leave the same output tree, whatever order the
\* directories are enumerated in.
C5_SecondRunSameOutput ==
    (run = 2 /\ phase = "done" /\ first.phase = "done") => out = first.fs

\* the second run keeps nothing the first run wrote or found
C5_NothingSurvives ==
    (run = 2 /\ phase = "load") => BuiltPaths(out) = {}

ConvertedReadmeDirs ==
    IF htmlroot = None THEN {}
    ELSE {c \in Converted(mdroot, htmlroot) :
              c[1].kind = "Directory" /\ c[1].readme # None}

\* the page holds the converted README, and every child is converted
C8_BodyAndChildren(d, h) ==
    /\ h.kind = "Directory"
    /\ h.content.template = "root.html"
    /\ h.content.content = [html |-> d.readme]
    /\ Len(h.children) = Len(d.children)
    /\ \A i \in 1..Len(d.children) :
          /\ h.children[i].kind = d.children[i].kind
          /\ h.children[i].path = StatedPath(d.children[i])
          /\ (d.children[i].kind = "File" =>
                 h.children[i].content.content = [html |-> d.children[i].content])

\* C8, as stated: the index page of a directory with a README carries the
\* breadcrumbs of (its ancestors, "README.md"), the converted README as its
\* body, and every child is converted.
C8_ReadmeCrumbs ==
    \A c \in ConvertedReadmeDirs :
        /\ c[2].content.breadcrumbs = breadcrumbs_html(c[1].ancestors, README_MD)
        /\ C8_BodyAndChildren(c[1], c[2])

\* C8, amended: the index page of a directory with a README carries the
\* breadcrumbs of (its ancestors, its own name): a link per ancestor, then a
\* span of the directory's name, and nothing for the root; its body is the
\* converted README, and every child is converted.
C8_OwnNameCrumbs ==
    \A c \in ConvertedReadmeDirs :
        /\ c[2].content.breadcrumbs = ExpectedCrumbs(c[1].ancestors, c[1].file_name)
        /\ C8_BodyAndChildren(c[1], c[2])

C8_Witness ==
    \E c \in ConvertedReadmeDirs :
        /\ c[1].file_name = NAME_D
        /\ c[1].readme = FileText(<<NAME_D, README_MD>>)
        /\ c[2].content.breadcrumbs = "<a href=\"/\">root</a> / <span>d</span>"
        /\ Len(c[2].children) >= 1

\* the operations of write_node_to_dir on a tree, in pre-order
RECURSIVE PreOrder(_)
RECURSIVE PreOrderAll(_)
PreOrder(h) ==
    IF h.kind = "File" THEN <<[op |-> "write", path |-> h.path]>>
    ELSE <<[op |-> "create_dir", path |-> h.path],
           [op |-> "write", path |-> h.path \o <<INDEX_HTML>>]>>
         \o PreOrderAll(h.children)
PreOrderAll(hs) ==
    IF hs = <<>> THEN <<>> ELSE PreOrder(Head(hs)) \o PreOrderAll(Tail(hs))

WriteFailed == wlog # <<>> /\ ~wlog[Len(wlog)].ok

\* C10: the Materializer creates a directory, writes its index, then
\* materializes its children in order; what it has done is a prefix of that
\* pre-order sequence, ending at the first operation that fails, after which
\* nothing is created or written; a write lands only in a directory created
\* earlier in the call, and creating a path that exists fails.
C10_PreOrderPrefix ==
    htmlroot # None =>
        LET full == PreOrder(htmlroot)
            n == Len(wlog)
        IN  /\ n <= Len(full)
            /\ \A k \in 1..n :
                  wlog[k].op = full[k].op /\ wlog[k].path = full[k].path
            /\ \A k \in 1..(n - 1) : wlog[k].ok
            /\ WriteFailed => phase = "failed"
            /\ phase = "write" => n < Len(full)
            /\ phase \in {"copy", "done"} => (n = Len(full) /\ ~WriteFailed)
            /\ \A k \in 1..n :
                  (wlog[k].op = "write" /\ wlog[k].ok) =>
                      \E j \in 1..(k - 1) :
                          /\ wlog[j].op = "create_dir" /\ wlog[j].ok
                          /\ wlog[j].path = Parent(wlog[k].path)
            /\ \A k \in 1..n :
                  (/\ wlog[k].op = "create_dir"
                   /\ \E j \in 1..(k - 1) : wlog[j].path = wlog[k].path)
                      => ~wlog[k].ok
            /\ (phase = "write" \/ WriteFailed) =>
                  BuiltPaths(out) = {wlog[k].path : k \in {j \in 1..n : wlog[j].ok}}

C10_Witness ==
    /\ htmlroot # None
    /\ phase = "failed"
    /\ Len(wlog) = 4
    /\ wlog[3] = Op("write", <<output_dir, NAME_A_HTML>>, TRUE)
    /\ wlog[4] = Op("create_dir", <<output_dir, NAME_A_HTML>>, FALSE)
    /\ Len(PreOrder(htmlroot)) > 4

====
